---- MODULE Spec2Model ----
(***************************************************************************)
(* Model of solar_banner.py: one run of main() (fetch, parse, locate the   *)
(* record node, extract, classify, format, render, save) and the four      *)
(* classifier functions.                                                   *)
(*                                                                         *)
(* Texts are sequences of one-character strings, so that strip(), float()  *)
(* and the formatting of numbers are computed character by character.      *)
(* A float is a record: [kind |-> "fin", t |-> tenths], [kind |-> "nan"]   *)
(* or [kind |-> "inf", t |-> sign]; the feed texts considered carry at     *)
(* most one fractional digit, so tenths are exact.                         *)
(***************************************************************************)
EXTENDS Integers, Sequences, FiniteSets, TLC

VARIABLES
    pc,         \* position of main(): the statement group reached
    err,        \* the exception that ended the run, "none" while there is none
    exitCode,   \* process exit status, -1 while the run is going
    requests,   \* number of calls of requests.get made
    resp,       \* the response of requests.get
    root,       \* the parsed document, NoDoc before ET.fromstring
    item,       \* children of the record node chosen, NoItem before the lookup
    report,     \* sfi, sn, a, k, xray, aurora, geomag, sig_noise
    phrases,    \* the (de, en) pairs returned by the four classifiers
    lines_de,   \* the German lines
    lines_en,   \* the English lines
    canvas,     \* what was drawn on the image
    outfile,    \* content of OUTFILE on disk
    writes,     \* number of times OUTFILE was written
    cfn,        \* classifier spec: the classifier called, "none" before the call
    carg,       \* classifier spec: its argument
    cres        \* classifier spec: the pair it returned

vars == <<pc, err, exitCode, requests, resp, root, item, report, phrases,
          lines_de, lines_en, canvas, outfile, writes, cfn, carg, cres>>

pipeVars == <<pc, err, exitCode, requests, resp, root, item, report, phrases,
              lines_de, lines_en, canvas, outfile, writes>>

classVars == <<cfn, carg, cres>>

----------------------------------------------------------------------------
(* Bounds of the classifier inputs.                                        *)

\* solar flux inputs, in tenths: -MaxNegSfi10 .. MaxSfi10
MaxNegSfi10 == 10
MaxSfi10 == 1620
\* k inputs: -MaxNegK .. MaxK
MaxNegK == 3
MaxK == 12
\* aurora inputs, in tenths: -MaxNegAurora10 .. MaxAurora10
MaxNegAurora10 == 5
MaxAurora10 == 90
\* xray inputs: every string over XrayAlphabet of at most MaxXrayLen characters
MaxXrayLen == 2

----------------------------------------------------------------------------
(* Characters and texts.                                                   *)

Whitespace == {" ", "\n"}

Digits == {"0", "1", "2", "3", "4", "5", "6", "7", "8", "9"}

DigitVal(c) ==
    CASE c = "0" -> 0 [] c = "1" -> 1 [] c = "2" -> 2 [] c = "3" -> 3
      [] c = "4" -> 4 [] c = "5" -> 5 [] c = "6" -> 6 [] c = "7" -> 7
      [] c = "8" -> 8 [] c = "9" -> 9

DigitChar(d) ==
    CASE d = 0 -> "0" [] d = 1 -> "1" [] d = 2 -> "2" [] d = 3 -> "3"
      [] d = 4 -> "4" [] d = 5 -> "5" [] d = 6 -> "6" [] d = 7 -> "7"
      [] d = 8 -> "8" [] d = 9 -> "9"

\* str.upper() of one character, on the letters the model's texts use
Upper(c) ==
    CASE c = "a" -> "A" [] c = "b" -> "B" [] c = "c" -> "C" [] c = "m" -> "M"
      [] c = "x" -> "X" [] c = "n" -> "N" [] c = "i" -> "I" [] c = "f" -> "F"
      [] OTHER -> c

\* str.lower() of one character, on the letters float() reads
Lower(c) ==
    CASE c = "A" -> "a" [] c = "N" -> "n" [] c = "I" -> "i" [] c = "F" -> "f"
      [] OTHER -> c

RECURSIVE LStrip(_)
LStrip(s) ==
    IF s # <<>> /\ Head(s) \in Whitespace THEN LStrip(Tail(s)) ELSE s

RECURSIVE RStrip(_)
RStrip(s) ==
    IF s # <<>> /\ s[Len(s)] \in Whitespace
    THEN RStrip(SubSeq(s, 1, Len(s) - 1))
    ELSE s

\* str.strip()
Strip(s) == RStrip(LStrip(s))

----------------------------------------------------------------------------
(* Floats.                                                                 *)

Fin(t) == [kind |-> "fin", t |-> t]
NaN == [kind |-> "nan", t |-> 0]
PosInf == [kind |-> "inf", t |-> 1]
NegInf == [kind |-> "inf", t |-> -1]

\* x < c, for a float x and an integer literal c; every comparison with a
\* NaN is false
FloatLt(x, c) ==
    CASE x.kind = "fin" -> x.t < 10 * c
      [] x.kind = "inf" -> x.t < 0
      [] OTHER -> FALSE

\* x <= y for two floats
FloatLe(x, y) ==
    CASE x.kind = "nan" \/ y.kind = "nan" -> FALSE
      [] x.kind = "inf" -> x.t < 0 \/ (y.kind = "inf" /\ y.t > 0)
      [] y.kind = "inf" -> y.t > 0
      [] OTHER -> x.t <= y.t

\* Tenths taken to an integer by flooring instead
TruncTenths_floor(t) == t \div 10

\* Truncation of tenths toward zero, as int() does on a finite float
TruncTenths(t) == IF t >= 0 THEN t \div 10 ELSE -((-t) \div 10)

\* int(x) on a float: [ok, v] or the exception raised
IntOfFloat(x) ==
    CASE x.kind = "fin" -> [ok |-> TRUE, v |-> TruncTenths(x.t), exc |-> "none"]
      [] x.kind = "nan" -> [ok |-> FALSE, v |-> 0, exc |-> "ValueError"]
      [] OTHER -> [ok |-> FALSE, v |-> 0, exc |-> "OverflowError"]

AllDigits(s) == \A i \in 1..Len(s) : s[i] \in Digits

RECURSIVE DigitsVal(_)
DigitsVal(s) ==
    IF s = <<>> THEN 0
    ELSE 10 * DigitsVal(SubSeq(s, 1, Len(s) - 1)) + DigitVal(s[Len(s)])

LowerAll(s) == [i \in 1..Len(s) |-> Lower(s[i])]

\* position of the first "." of s, 0 when there is none
DotPos(s) ==
    IF \E i \in 1..Len(s) : s[i] = "."
    THEN CHOOSE i \in 1..Len(s) : s[i] = "." /\ \A j \in 1..(i - 1) : s[j] # "."
    ELSE 0

\* The unsigned part of a float literal: digits, digits "." digits with one
\* side possibly empty, "inf", "infinity" or "nan" in any case.
\* Exponents and digit-group underscores are not read: no modelled text has them.
UnsignedFloat(s) ==
    LET low == LowerAll(s)
        d == DotPos(s)
        ip == IF d = 0 THEN s ELSE SubSeq(s, 1, d - 1)
        fp == IF d = 0 THEN <<>> ELSE SubSeq(s, d + 1, Len(s))
    IN  IF low = <<"n", "a", "n">> THEN [ok |-> TRUE, v |-> NaN]
        ELSE IF low = <<"i", "n", "f">>
                 \/ low = <<"i", "n", "f", "i", "n", "i", "t", "y">>
        THEN [ok |-> TRUE, v |-> PosInf]
        ELSE IF AllDigits(ip) /\ AllDigits(fp) /\ Len(ip) + Len(fp) > 0
        THEN [ok |-> TRUE,
              v |-> Fin(10 * DigitsVal(ip)
                          + (IF fp = <<>> THEN 0 ELSE DigitVal(fp[1])))]
        ELSE [ok |-> FALSE, v |-> NaN]

Negate(x) ==
    CASE x.kind = "fin" -> Fin(-x.t)
      [] x.kind = "inf" -> [kind |-> "inf", t |-> -x.t]
      [] OTHER -> x

\* float(s) on a text: [ok |-> TRUE, v |-> the float], or ok = FALSE where
\* Python raises ValueError. float() ignores surrounding whitespace.
FloatOfText(s) ==
    LET b == Strip(s)
    IN  IF b = <<>> THEN [ok |-> FALSE, v |-> NaN]
        ELSE IF Head(b) = "-"
        THEN LET r == UnsignedFloat(Tail(b))
             IN  [ok |-> r.ok, v |-> Negate(r.v)]
        ELSE IF Head(b) = "+" THEN UnsignedFloat(Tail(b))
        ELSE UnsignedFloat(b)

\* float(x or 0) for the value x that safe_get returned: the empty string
\* is falsy, so 0 is converted in its place
FloatOrZero(s) ==
    IF s = <<>> THEN [ok |-> TRUE, v |-> Fin(0)] ELSE FloatOfText(s)

----------------------------------------------------------------------------
(* Formatting of numbers.                                                  *)

RECURSIVE NatToText(_)
NatToText(n) ==
    IF n < 10 THEN <<DigitChar(n)>>
    ELSE NatToText(n \div 10) \o <<DigitChar(n % 10)>>

\* str(n) of an int, as an f-string field {n} shows it
IntToText(n) == IF n < 0 THEN <<"-">> \o NatToText(-n) ELSE NatToText(n)

\* {x:.1f} of a float
Format1f(x) ==
    CASE x.kind = "nan" -> <<"n", "a", "n">>
      [] x.kind = "inf" ->
            IF x.t < 0 THEN <<"-", "i", "n", "f">> ELSE <<"i", "n", "f">>
      [] OTHER ->
            LET m == IF x.t < 0 THEN -x.t ELSE x.t
            IN  (IF x.t < 0 THEN <<"-">> ELSE <<>>)
                \o NatToText(m \div 10) \o <<".", DigitChar(m % 10)>>

----------------------------------------------------------------------------
(* The classifiers.                                                        *)

\* classify_sfi with the first boundary taken as sfi <= 80
classify_sfi_le80(sfi) ==
    IF FloatLt(sfi, 80) \/ sfi = Fin(800)
    THEN <<"schwache obere KW-Baender", "weak upper HF bands">>
    ELSE IF FloatLt(sfi, 120)
    THEN <<"gute 20-15m Bedingungen", "good 20-15m conditions">>
    ELSE IF FloatLt(sfi, 160)
    THEN <<"sehr gute 20-10m Bedingungen", "very good 20-10m conditions">>
    ELSE <<"exzellente 20-10m Bedingungen", "excellent 20-10m conditions">>

classify_sfi(sfi) ==
    IF FloatLt(sfi, 80)
    THEN <<"schwache obere KW-Baender", "weak upper HF bands">>
    ELSE IF FloatLt(sfi, 120)
    THEN <<"gute 20-15m Bedingungen", "good 20-15m conditions">>
    ELSE IF FloatLt(sfi, 160)
    THEN <<"sehr gute 20-10m Bedingungen", "very good 20-10m conditions">>
    ELSE <<"exzellente 20-10m Bedingungen", "excellent 20-10m conditions">>

\* classify_k with the k == 4 branch tested as k <= 4 before k <= 3
classify_k_swapped(k) ==
    IF k <= 1
    THEN <<"Magnetfeld ruhig", "geomagnetic field quiet">>
    ELSE IF k <= 4
    THEN <<"Magnetfeld gestoert", "geomagnetic field active">>
    ELSE IF k <= 3
    THEN <<"Magnetfeld leicht unruhig", "geomagnetic field unsettled">>
    ELSE IF k <= 5
    THEN <<"geomagnetischer Sturm (K>=5)", "minor geomagnetic storm (K>=5)">>
    ELSE <<"starker geomagnetischer Sturm", "major geomagnetic storm">>

classify_k(k) ==
    IF k <= 1
    THEN <<"Magnetfeld ruhig", "geomagnetic field quiet">>
    ELSE IF k <= 3
    THEN <<"Magnetfeld leicht unruhig", "geomagnetic field unsettled">>
    ELSE IF k = 4
    THEN <<"Magnetfeld gestoert", "geomagnetic field active">>
    ELSE IF k <= 5
    THEN <<"geomagnetischer Sturm (K>=5)", "minor geomagnetic storm (K>=5)">>
    ELSE <<"starker geomagnetischer Sturm", "major geomagnetic storm">>

\* classify_aurora with the second boundary taken as a <= 7
classify_aurora_le7(a) ==
    IF FloatLt(a, 5)
    THEN <<"Aurora-DX unwahrscheinlich", "Aurora DX unlikely">>
    ELSE IF FloatLt(a, 7) \/ a = Fin(70)
    THEN <<"moegliche Aurora-Aktivitaet", "possible auroral activity">>
    ELSE <<"hohe Aurora-Wahrscheinlichkeit", "high auroral probability">>

classify_aurora(a) ==
    IF FloatLt(a, 5)
    THEN <<"Aurora-DX unwahrscheinlich", "Aurora DX unlikely">>
    ELSE IF FloatLt(a, 7)
    THEN <<"moegliche Aurora-Aktivitaet", "possible auroral activity">>
    ELSE <<"hohe Aurora-Wahrscheinlichkeit", "high auroral probability">>

\* classify_xray without the .upper() of the first character
classify_xray_cased(xray_str) ==
    IF xray_str = <<>>
    THEN <<"X-Ray Hintergrund ruhig", "low X-ray background">>
    ELSE LET level == xray_str[1]
         IN  IF level \in {"A", "B"}
             THEN <<"X-Ray Hintergrund ruhig", "low X-ray background">>
             ELSE IF level = "C"
             THEN <<"C-Flare Aktivitaet", "C-flare activity">>
             ELSE IF level = "M"
             THEN <<"M-Flare - kurzzeitige HF-Daempfung moeglich",
                    "M-flare - short HF fade possible">>
             ELSE <<"X-Flare - HF-Blackouts moeglich",
                    "X-flare - HF blackouts possible">>

classify_xray(xray_str) ==
    IF xray_str = <<>>
    THEN <<"X-Ray Hintergrund ruhig", "low X-ray background">>
    ELSE LET level == Upper(xray_str[1])
         IN  IF level \in {"A", "B"}
             THEN <<"X-Ray Hintergrund ruhig", "low X-ray background">>
             ELSE IF level = "C"
             THEN <<"C-Flare Aktivitaet", "C-flare activity">>
             ELSE IF level = "M"
             THEN <<"M-Flare - kurzzeitige HF-Daempfung moeglich",
                    "M-flare - short HF fade possible">>
             ELSE <<"X-Flare - HF-Blackouts moeglich",
                    "X-flare - HF blackouts possible">>

----------------------------------------------------------------------------
(* The feed document.                                                      *)

\* the text of the str literal w, character by character
T_0 == <<"0">>
T_question == <<"?">>
T_NoRpt == <<"N", "o", "R", "p", "t">>
T_empty == <<>>
T_na == <<"n", "/", "a">>

\* A leaf element <tag>text</tag>; hasText = FALSE is el.text = None, which
\* is what the parser gives for <tag/> and <tag></tag>
Leaf(tag, text) == [tag |-> tag, hasText |-> TRUE, text |-> text]
EmptyLeaf(tag) == [tag |-> tag, hasText |-> FALSE, text |-> <<>>]

\* The texts each leaf of the feed is drawn from
LeafTexts(tag) ==
    CASE tag = "solarflux" ->
            {<<"7", "9", ".", "9">>, <<" ", "1", "2", "0", "\n">>,
             <<"1", "1", "9", ".", "9">>, <<"n", "a", "n">>}
      [] tag = "sunspots" -> {<<" ", "1", "2", "0", " ">>}
      [] tag = "aindex" ->
            {<<"3", ".", "8">>, <<"-", "3", ".", "8">>, <<"N", "/", "A">>}
      [] tag = "kindex" -> {<<"1", ".", "9">>, <<"5">>}
      [] tag = "xray" -> {<<"c", "3">>, <<" ">>}
      [] tag = "aurora" -> {<<"6", ".", "2">>, <<"I", "n", "f">>}
      [] tag = "geomagfield" -> {<<"A", "c", "t", "i", "v", "e">>}
      [] tag = "signalnoise" -> {<<"S", "1">>}

\* tags whose element also occurs without text
EmptyTags == {"kindex"}

\* A leaf of the feed is absent (no child), empty, or carries one of its texts
LeafOptions(tag) ==
    {<<>>}
      \cup (IF tag \in EmptyTags THEN {<<EmptyLeaf(tag)>>} ELSE {})
      \cup {<<Leaf(tag, t)>> : t \in LeafTexts(tag)}

\* The children of a record node, in document order
RecordChildren ==
    {o1 \o o2 \o o3 \o o4 \o o5 \o o6 \o o7 \o o8 :
        o1 \in LeafOptions("solarflux"), o2 \in LeafOptions("sunspots"),
        o3 \in LeafOptions("aindex"), o4 \in LeafOptions("kindex"),
        o5 \in LeafOptions("xray"), o6 \in LeafOptions("aurora"),
        o7 \in LeafOptions("geomagfield"), o8 \in LeafOptions("signalnoise")}

\* Children of item where the fields sit directly under it, and the leaves
\* item carries beside a solardata element; the second has a repeated tag
FewChildren ==
    {<<>>,
     <<Leaf("kindex", <<"5">>), Leaf("xray", <<"X", "2">>)>>,
     <<EmptyLeaf("sunspots"), Leaf("kindex", <<" ", "4">>),
       Leaf("kindex", <<"7">>), Leaf("geomagfield", <<" ", " ">>)>>}

\* A document: shape is the deepest element of the path
\* root / channel / item / solardata that exists; direct are the leaves of
\* item, data the leaves of solardata
Doc(shape, direct, data) ==
    [wellFormed |-> TRUE, shape |-> shape, direct |-> direct, data |-> data]
Malformed ==
    [wellFormed |-> FALSE, shape |-> "root", direct |-> <<>>, data |-> <<>>]
NoDoc == [wellFormed |-> FALSE, shape |-> "none", direct |-> <<>>, data |-> <<>>]

Documents ==
    {Malformed, Doc("root", <<>>, <<>>), Doc("channel", <<>>, <<>>)}
      \cup {Doc("item", c, <<>>) : c \in FewChildren}
      \cup {Doc("solardata", <<>>, c) : c \in RecordChildren}
      \cup {Doc("solardata", d, c) : d \in FewChildren, c \in FewChildren}

\* bodies that come with a status other than 200
StatusBodies ==
    {Malformed, Doc("solardata", <<>>, <<Leaf("kindex", <<"5">>)>>)}

\* What requests.get does: raises, or returns a response
Response(status, content) == [raised |-> FALSE, status |-> status, content |-> content]
RequestFailed == [raised |-> TRUE, status |-> 0, content |-> Malformed]
NoResponse == [raised |-> FALSE, status |-> 0, content |-> NoDoc]

Responses ==
    {RequestFailed}
      \cup {Response(200, d) : d \in Documents}
      \cup {Response(st, d) : st \in {304, 404, 503}, d \in StatusBodies}

\* raise_for_status raising for server errors only
RaisesForStatus_5xx(status) == 500 <= status /\ status < 600

\* Response.raise_for_status() raises HTTPError for 4xx and 5xx
RaisesForStatus(status) == 400 <= status /\ status < 600

----------------------------------------------------------------------------
(* Lookup and extraction.                                                  *)

\* Element.find(tag) among the children of parent: the index of the first
\* child with that tag, 0 for None
Find(parent, tag) ==
    IF \E i \in 1..Len(parent) : parent[i].tag = tag
    THEN CHOOSE i \in 1..Len(parent) :
            parent[i].tag = tag /\ \A j \in 1..(i - 1) : parent[j].tag # tag
    ELSE 0

\* safe_get that falls back to "" instead of default when el.text is None
safe_get_textOrEmpty(parent, tag, default) ==
    LET el == Find(parent, tag)
    IN  IF el = 0 THEN default
        ELSE IF ~parent[el].hasText THEN <<>>
        ELSE Strip(parent[el].text)

safe_get(parent, tag, default) ==
    LET el == Find(parent, tag)
    IN  IF el = 0 \/ ~parent[el].hasText
        THEN default
        ELSE Strip(parent[el].text)

\* root.find("./channel/item/solardata")
FindSolardata(doc) ==
    IF doc.shape = "solardata"
    THEN [found |-> TRUE, node |-> "solardata", children |-> doc.data]
    ELSE [found |-> FALSE, node |-> "none", children |-> <<>>]

\* root.find("./channel/item")
FindItem(doc) ==
    IF doc.shape \in {"item", "solardata"}
    THEN [found |-> TRUE, node |-> "item", children |-> doc.direct]
    ELSE [found |-> FALSE, node |-> "none", children |-> <<>>]

NoItem == [found |-> FALSE, node |-> "none", children |-> <<>>]

\* The lookup with the two paths tried in the other order
LookupRecord_itemFirst(doc) ==
    IF FindItem(doc).found THEN FindItem(doc) ELSE FindSolardata(doc)

\* The record node main() settles on: solardata first, item as the fallback
LookupRecord(doc) ==
    IF FindSolardata(doc).found THEN FindSolardata(doc) ELSE FindItem(doc)

NoReport ==
    [populated |-> FALSE, sfi |-> Fin(0), sn |-> <<>>, a |-> 0, k |-> 0,
     xray |-> <<>>, aurora |-> Fin(0), geomag |-> <<>>, sig_noise |-> <<>>]

\* int(float(x or 0)): the exception of float() comes before that of int()
IntOfText(s) ==
    LET f == FloatOrZero(s)
    IN  IF f.ok THEN IntOfFloat(f.v)
        ELSE [ok |-> FALSE, v |-> 0, exc |-> "ValueError"]

\* The eight assignments of main(), in their order; exc is the exception of
\* the first conversion that raises
Extraction(node) ==
    LET sfi == FloatOrZero(safe_get(node, "solarflux", T_0))
        a == IntOfText(safe_get(node, "aindex", T_0))
        k == IntOfText(safe_get(node, "kindex", T_0))
        aurora == FloatOrZero(safe_get(node, "aurora", T_0))
        exc == IF ~sfi.ok THEN "ValueError"
               ELSE IF ~a.ok THEN a.exc
               ELSE IF ~k.ok THEN k.exc
               ELSE IF ~aurora.ok THEN "ValueError"
               ELSE "none"
    IN  [exc |-> exc,
         report |->
            IF exc # "none" THEN NoReport
            ELSE [populated |-> TRUE,
                  sfi |-> sfi.v,
                  sn |-> safe_get(node, "sunspots", T_question),
                  a |-> a.v,
                  k |-> k.v,
                  xray |-> safe_get(node, "xray", T_empty),
                  aurora |-> aurora.v,
                  geomag |-> safe_get(node, "geomagfield", T_NoRpt),
                  sig_noise |-> safe_get(node, "signalnoise", T_question)]]

NoPhrases ==
    [sfi |-> <<"", "">>, k |-> <<"", "">>, aur |-> <<"", "">>, xr |-> <<"", "">>]

Classification(r) ==
    [sfi |-> classify_sfi(r.sfi), k |-> classify_k(r.k),
     aur |-> classify_aurora(r.aurora), xr |-> classify_xray(r.xray)]

----------------------------------------------------------------------------
(* Formatting.                                                             *)

\* A line is a sequence of pieces: literal text of the f-string, or a value
Lit(str) == [piece |-> "lit", str |-> str, text |-> <<>>]
Val(text) == [piece |-> "val", str |-> "", text |-> text]

\* datetime.now(timezone.utc).strftime("%d %b %Y, %H:%M UTC")
Clock == {"02 Nov 2026, 09:05 UTC", "31 Dec 2026, 23:59 UTC"}

\* xray or 'n/a'
XrayOrNa(xray) == IF xray = <<>> THEN T_na ELSE xray

\* The six lines of one language; lang is 1 for lines_de, 2 for lines_en.
\* sfiInt is int(sfi).
Lines(lang, r, ph, sfiInt, now_utc) ==
    << <<Lit(IF lang = 1 THEN "DL2HT Solarbericht - " ELSE "DL2HT Solar Report - "),
         Lit(now_utc)>>,
       <<Lit("SFI "), Val(IntToText(sfiInt)),
         Lit(IF lang = 1 THEN " / SN " ELSE " / SSN "), Val(r.sn),
         Lit(" - "), Lit(ph.sfi[lang])>>,
       <<Lit("A="), Val(IntToText(r.a)), Lit(", K="), Val(IntToText(r.k)),
         Lit(" - "), Lit(ph.k[lang])>>,
       <<Lit(IF lang = 1 THEN "Aurora-Index " ELSE "Aurora index "),
         Val(Format1f(r.aurora)), Lit(" - "), Lit(ph.aur[lang])>>,
       <<Lit(IF lang = 1 THEN "X-Ray " ELSE "X-ray "), Val(XrayOrNa(r.xray)),
         Lit(" - "), Lit(ph.xr[lang])>>,
       <<Lit("Geomag: "), Val(r.geomag),
         Lit(IF lang = 1 THEN ", Rauschpegel: " ELSE ", Noise level: "),
         Val(r.sig_noise)>> >>

\* Building lines_de and lines_en: int(sfi) raises on a NaN or an infinity
Formatting(r, ph, now_utc) ==
    LET i == IntOfFloat(r.sfi)
    IN  IF i.ok
        THEN [exc |-> "none", de |-> Lines(1, r, ph, i.v, now_utc),
              en |-> Lines(2, r, ph, i.v, now_utc)]
        ELSE [exc |-> i.exc, de |-> <<>>, en |-> <<>>]

----------------------------------------------------------------------------
(* Rendering.                                                              *)

width == 640
height == 300

\* draw.text((10, y), line, font) and draw.line((10, y, width - 10, y))
DrawText(y, font, line) ==
    [op |-> "text", x |-> 10, y |-> y, font |-> font, line |-> line]
DrawLine(y) ==
    [op |-> "line", x |-> width - 10, y |-> y, font |-> "none", line |-> <<>>]
\* the footer, right-aligned: its corner is (width - 10, height - 4)
DrawFooter(font, line) ==
    [op |-> "footer", x |-> width - 10, y |-> height - 4, font |-> font,
     line |-> line]

\* What main() draws: the title, lines_de, the separator, lines_en, the
\* footer. big and small are the fonts loaded.
Drawing(de, en, big, small) ==
    LET yDe == 8 + 26
        ySep == yDe + 18 * Len(de) + 4
        yEn == ySep + 8
    IN  <<DrawText(8, big, <<Lit("Solar / HF Bedingungen - DL2HT (JO43VK)")>>)>>
        \o [i \in 1..Len(de) |-> DrawText(yDe + 18 * (i - 1), small, de[i])]
        \o <<DrawLine(ySep)>>
        \o [i \in 1..Len(en) |-> DrawText(yEn + 18 * (i - 1), small, en[i])]
        \o <<DrawFooter(small, <<Lit("Data source: hamqsl.com / N0NBH")>>)>>

\* OUTFILE on disk
NoFile == [state |-> "absent", image |-> <<>>]
OldFile == [state |-> "previous", image |-> <<>>]
ImageFile(image) == [state |-> "image", image |-> image]
PartialFile == [state |-> "partial", image |-> <<>>]

----------------------------------------------------------------------------
(* One run of main().                                                      *)

\* The argument of a classifier called on its own
Arg(fn, f, k, str) == [fn |-> fn, f |-> f, k |-> k, str |-> str]

\* An unhandled exception, and SystemExit with a message, end the process
\* with status 1
ExitStatus(exc) == IF exc = "none" THEN 0 ELSE 1

Fail(exc) ==
    /\ pc' = "failed"
    /\ err' = exc
    /\ exitCode' = ExitStatus(exc)

Init ==
    /\ pc = "start"
    /\ err = "none"
    /\ exitCode = -1
    /\ requests = 0
    /\ resp = NoResponse
    /\ root = NoDoc
    /\ item = NoItem
    /\ report = NoReport
    /\ phrases = NoPhrases
    /\ lines_de = <<>>
    /\ lines_en = <<>>
    /\ canvas = <<>>
    /\ outfile \in {NoFile, OldFile}
    /\ writes = 0
    /\ cfn = "none"
    /\ carg = Arg("none", Fin(0), 0, <<>>)
    /\ cres = <<"", "">>

\* resp = requests.get(XML_URL, timeout=15); resp.raise_for_status()
Fetch ==
    /\ pc = "start"
    /\ requests' = requests + 1
    /\ \E r \in Responses :
        /\ resp' = r
        /\ IF r.raised THEN Fail("RequestException")
           ELSE IF RaisesForStatus(r.status) THEN Fail("HTTPError")
           ELSE /\ pc' = "fetched"
                /\ UNCHANGED <<err, exitCode>>
    /\ UNCHANGED <<root, item, report, phrases, lines_de, lines_en, canvas,
                   outfile, writes, classVars>>

\* root = ET.fromstring(resp.content)
Parse ==
    /\ pc = "fetched"
    /\ IF resp.content.wellFormed
       THEN /\ root' = resp.content
            /\ pc' = "parsed"
            /\ UNCHANGED <<err, exitCode>>
       ELSE /\ Fail("ParseError")
            /\ UNCHANGED root
    /\ UNCHANGED <<requests, resp, item, report, phrases, lines_de, lines_en,
                   canvas, outfile, writes, classVars>>

\* item = root.find(...solardata); if None: item = root.find(...item);
\* if None: raise SystemExit("Konnte solardata-Element nicht finden")
Locate ==
    /\ pc = "parsed"
    /\ LET node == LookupRecord(root)
       IN  IF node.found
           THEN /\ item' = node
                /\ pc' = "located"
                /\ UNCHANGED <<err, exitCode>>
           ELSE /\ Fail("SystemExit")
                /\ UNCHANGED item
    /\ UNCHANGED <<requests, resp, root, report, phrases, lines_de, lines_en,
                   canvas, outfile, writes, classVars>>

\* sfi = float(safe_get(item, "solarflux", "0") or 0) ... sig_noise = ...
Extract ==
    /\ pc = "located"
    /\ LET e == Extraction(item.children)
       IN  IF e.exc = "none"
           THEN /\ report' = e.report
                /\ pc' = "extracted"
                /\ UNCHANGED <<err, exitCode>>
           ELSE /\ Fail(e.exc)
                /\ UNCHANGED report
    /\ UNCHANGED <<requests, resp, root, item, phrases, lines_de, lines_en,
                   canvas, outfile, writes, classVars>>

\* sfi_de, sfi_en = classify_sfi(sfi) ... xr_de, xr_en = classify_xray(xray)
Classify ==
    /\ pc = "extracted"
    /\ phrases' = Classification(report)
    /\ pc' = "classified"
    /\ UNCHANGED <<err, exitCode, requests, resp, root, item, report, lines_de,
                   lines_en, canvas, outfile, writes, classVars>>

\* now_utc = ...; lines_de = [...]; lines_en = [...]
Format ==
    /\ pc = "classified"
    /\ \E now_utc \in Clock :
        LET f == Formatting(report, phrases, now_utc)
        IN  IF f.exc = "none"
            THEN /\ lines_de' = f.de
                 /\ lines_en' = f.en
                 /\ pc' = "formatted"
                 /\ UNCHANGED <<err, exitCode>>
            ELSE /\ Fail(f.exc)
                 /\ UNCHANGED <<lines_de, lines_en>>
    /\ UNCHANGED <<requests, resp, root, item, report, phrases, canvas, outfile,
                   writes, classVars>>

\* img = Image.new(...) ... draw.text(..., footer, ...): the fonts are
\* arial.ttf or, on OSError, the default font; draw.textsize exists only in
\* some versions of the imaging library and raises AttributeError in the others
Render ==
    /\ pc = "formatted"
    /\ \E hasArial \in BOOLEAN, hasTextsize \in BOOLEAN :
        LET big == IF hasArial THEN "arial.ttf 18" ELSE "default"
            small == IF hasArial THEN "arial.ttf 14" ELSE "default"
        IN  IF hasTextsize
            THEN /\ canvas' = Drawing(lines_de, lines_en, big, small)
                 /\ pc' = "rendered"
                 /\ UNCHANGED <<err, exitCode>>
            ELSE /\ Fail("AttributeError")
                 /\ UNCHANGED canvas
    /\ UNCHANGED <<requests, resp, root, item, report, phrases, lines_de,
                   lines_en, outfile, writes, classVars>>

\* img.save(OUTFILE), the last statement: the run ends with status 0
Save ==
    /\ pc = "rendered"
    /\ outfile' = ImageFile(canvas)
    /\ writes' = writes + 1
    /\ pc' = "done"
    /\ exitCode' = ExitStatus("none")
    /\ UNCHANGED <<err, requests, resp, root, item, report, phrases, lines_de,
                   lines_en, canvas, classVars>>

\* img.save(OUTFILE) raising OSError: the file could not be opened, or the
\* write broke off and left a partial file
SaveFails ==
    /\ pc = "rendered"
    /\ \E opened \in BOOLEAN :
        /\ outfile' = IF opened THEN PartialFile ELSE outfile
        /\ writes' = IF opened THEN writes + 1 ELSE writes
    /\ Fail("OSError")
    /\ UNCHANGED <<requests, resp, root, item, report, phrases, lines_de,
                   lines_en, canvas, classVars>>

Next ==
    \/ Fetch
    \/ Parse
    \/ Locate
    \/ Extract
    \/ Classify
    \/ Format
    \/ Render
    \/ Save
    \/ SaveFails

Spec == Init /\ [][Next]_vars

----------------------------------------------------------------------------
(* The classifiers called on their own.                                    *)

XrayAlphabet == {"a", "A", "b", "B", "c", "C", "m", "M", "X", "3", " "}

RECURSIVE StringsUpTo(_)
StringsUpTo(n) ==
    IF n = 0 THEN {<<>>}
    ELSE LET shorter == StringsUpTo(n - 1)
         IN  shorter \cup {<<c>> \o t : c \in XrayAlphabet,
                                        t \in {u \in shorter : Len(u) = n - 1}}

SfiInputs == {Fin(t) : t \in (-MaxNegSfi10)..MaxSfi10} \cup {NaN, PosInf, NegInf}
KInputs == (-MaxNegK)..MaxK
AuroraInputs ==
    {Fin(t) : t \in (-MaxNegAurora10)..MaxAurora10} \cup {NaN, PosInf, NegInf}
XrayInputs == StringsUpTo(MaxXrayLen)

ClassifierArgs ==
    {Arg("classify_sfi", x, 0, <<>>) : x \in SfiInputs}
      \cup {Arg("classify_k", Fin(0), k, <<>>) : k \in KInputs}
      \cup {Arg("classify_aurora", x, 0, <<>>) : x \in AuroraInputs}
      \cup {Arg("classify_xray", Fin(0), 0, str) : str \in XrayInputs}

InitClassify ==
    /\ pc = "start"
    /\ err = "none"
    /\ exitCode = -1
    /\ requests = 0
    /\ resp = NoResponse
    /\ root = NoDoc
    /\ item = NoItem
    /\ report = NoReport
    /\ phrases = NoPhrases
    /\ lines_de = <<>>
    /\ lines_en = <<>>
    /\ canvas = <<>>
    /\ outfile = NoFile
    /\ writes = 0
    /\ cfn = "none"
    /\ carg \in ClassifierArgs
    /\ cres = <<"", "">>

CallClassifySfi ==
    /\ cfn = "none"
    /\ carg.fn = "classify_sfi"
    /\ cres' = classify_sfi(carg.f)
    /\ cfn' = carg.fn
    /\ UNCHANGED <<carg, pipeVars>>

CallClassifyK ==
    /\ cfn = "none"
    /\ carg.fn = "classify_k"
    /\ cres' = classify_k(carg.k)
    /\ cfn' = carg.fn
    /\ UNCHANGED <<carg, pipeVars>>

CallClassifyAurora ==
    /\ cfn = "none"
    /\ carg.fn = "classify_aurora"
    /\ cres' = classify_aurora(carg.f)
    /\ cfn' = carg.fn
    /\ UNCHANGED <<carg, pipeVars>>

CallClassifyXray ==
    /\ cfn = "none"
    /\ carg.fn = "classify_xray"
    /\ cres' = classify_xray(carg.str)
    /\ cfn' = carg.fn
    /\ UNCHANGED <<carg, pipeVars>>

NextClassify ==
    \/ CallClassifySfi
    \/ CallClassifyK
    \/ CallClassifyAurora
    \/ CallClassifyXray

SpecClassify == InitClassify /\ [][NextClassify]_vars

----------------------------------------------------------------------------
(* Properties of the classifiers, under SpecClassify.                      *)

SfiWeak == <<"schwache obere KW-Baender", "weak upper HF bands">>
SfiGood == <<"gute 20-15m Bedingungen", "good 20-15m conditions">>
SfiVeryGood == <<"sehr gute 20-10m Bedingungen", "very good 20-10m conditions">>
SfiExcellent == <<"exzellente 20-10m Bedingungen", "excellent 20-10m conditions">>

SfiRank(band) ==
    CASE band = SfiWeak -> 1 [] band = SfiGood -> 2 [] band = SfiVeryGood -> 3
      [] band = SfiExcellent -> 4 [] OTHER -> 0

KQuiet == <<"Magnetfeld ruhig", "geomagnetic field quiet">>
KUnsettled == <<"Magnetfeld leicht unruhig", "geomagnetic field unsettled">>
KActive == <<"Magnetfeld gestoert", "geomagnetic field active">>
KMinor == <<"geomagnetischer Sturm (K>=5)", "minor geomagnetic storm (K>=5)">>
KMajor == <<"starker geomagnetischer Sturm", "major geomagnetic storm">>

KRank(band) ==
    CASE band = KQuiet -> 1 [] band = KUnsettled -> 2 [] band = KActive -> 3
      [] band = KMinor -> 4 [] band = KMajor -> 5 [] OTHER -> 0

AuroraUnlikely == <<"Aurora-DX unwahrscheinlich", "Aurora DX unlikely">>
AuroraPossible == <<"moegliche Aurora-Aktivitaet", "possible auroral activity">>
AuroraHigh == <<"hohe Aurora-Wahrscheinlichkeit", "high auroral probability">>

AuroraRank(band) ==
    CASE band = AuroraUnlikely -> 1 [] band = AuroraPossible -> 2
      [] band = AuroraHigh -> 3 [] OTHER -> 0

XrayLow == <<"X-Ray Hintergrund ruhig", "low X-ray background">>
XrayC == <<"C-Flare Aktivitaet", "C-flare activity">>
XrayM ==
    <<"M-Flare - kurzzeitige HF-Daempfung moeglich",
      "M-flare - short HF fade possible">>
XrayX == <<"X-Flare - HF-Blackouts moeglich", "X-flare - HF blackouts possible">>

\* x lies in [lo, hi) tenths; an infinity lies beyond every finite bound
InTenths(x, lo, hi) == x.kind = "fin" /\ lo <= x.t /\ x.t < hi
Below(x, hi) == (x.kind = "fin" /\ x.t < hi) \/ (x.kind = "inf" /\ x.t < 0)
AtLeast(x, lo) == (x.kind = "fin" /\ x.t >= lo) \/ (x.kind = "inf" /\ x.t > 0)

\* C4: classify_sfi returns exactly one of the four bands, weak below 80,
\* good in [80, 120), very good in [120, 160), excellent from 160 on, and the
\* band never decreases when the input increases.
C4_SfiBands ==
    cfn = "classify_sfi" =>
        LET x == carg.f
        IN  /\ SfiRank(cres) \in 1..4
            /\ Below(x, 800) => cres = SfiWeak
            /\ InTenths(x, 800, 1200) => cres = SfiGood
            /\ InTenths(x, 1200, 1600) => cres = SfiVeryGood
            /\ AtLeast(x, 1600) => cres = SfiExcellent
            /\ \A y \in SfiInputs :
                /\ FloatLe(x, y) => SfiRank(cres) <= SfiRank(classify_sfi(y))
                /\ FloatLe(y, x) => SfiRank(classify_sfi(y)) <= SfiRank(cres)

\* 159.9 has been classified very good
C4_Witness ==
    cfn = "classify_sfi" /\ carg.f = Fin(1599) /\ cres = SfiVeryGood

\* C5: classify_k returns exactly one of the five bands for every integer,
\* quiet up to 1, unsettled for 2 and 3, active for 4, minor storm for 5,
\* major storm from 6 on, and the band never decreases when k increases.
C5_KBands ==
    cfn = "classify_k" =>
        LET k == carg.k
        IN  /\ KRank(cres) \in 1..5
            /\ k <= 1 => cres = KQuiet
            /\ k \in {2, 3} => cres = KUnsettled
            /\ k = 4 => cres = KActive
            /\ k = 5 => cres = KMinor
            /\ k >= 6 => cres = KMajor
            /\ \A j \in KInputs :
                /\ k <= j => KRank(cres) <= KRank(classify_k(j))
                /\ j <= k => KRank(classify_k(j)) <= KRank(cres)

\* k = 4 has been classified active
C5_Witness == cfn = "classify_k" /\ carg.k = 4 /\ cres = KActive

\* C6: classify_aurora returns exactly one of the three bands, unlikely
\* below 5, possible in [5, 7), high from 7 on, and the band never decreases
\* when the input increases.
C6_AuroraBands ==
    cfn = "classify_aurora" =>
        LET a == carg.f
        IN  /\ AuroraRank(cres) \in 1..3
            /\ Below(a, 50) => cres = AuroraUnlikely
            /\ InTenths(a, 50, 70) => cres = AuroraPossible
            /\ AtLeast(a, 70) => cres = AuroraHigh
            /\ \A y \in AuroraInputs :
                /\ FloatLe(a, y) =>
                        AuroraRank(cres) <= AuroraRank(classify_aurora(y))
                /\ FloatLe(y, a) =>
                        AuroraRank(classify_aurora(y)) <= AuroraRank(cres)

\* 7 has been classified high
C6_Witness == cfn = "classify_aurora" /\ carg.f = Fin(70) /\ cres = AuroraHigh

UpperAll(str) == [i \in 1..Len(str) |-> Upper(str[i])]

\* C7: classify_xray is decided by the first character alone, whatever its
\* case: low background for the empty string and for A or B, C-flare for C,
\* M-flare for M, the X-flare tier for every other first character; a string
\* and its upper-case form get the same pair; every string gets a pair.
C7_XrayFirstLetter ==
    cfn = "classify_xray" =>
        LET str == carg.str
        IN  /\ cres \in {XrayLow, XrayC, XrayM, XrayX}
            /\ str = <<>> => cres = XrayLow
            /\ str # <<>> =>
                /\ str[1] \in {"a", "A", "b", "B"} => cres = XrayLow
                /\ str[1] \in {"c", "C"} => cres = XrayC
                /\ str[1] \in {"m", "M"} => cres = XrayM
                /\ str[1] \notin {"a", "A", "b", "B", "c", "C", "m", "M"} =>
                        cres = XrayX
            /\ cres = classify_xray(UpperAll(str))
            /\ \A other \in XrayInputs :
                (other # <<>> /\ str # <<>> /\ other[1] = str[1]) =>
                    classify_xray(other) = cres

\* the lower-case "c3" has been classified C-flare
C7_Witness ==
    cfn = "classify_xray" /\ carg.str = <<"c", "3">> /\ cres = XrayC

----------------------------------------------------------------------------
(* Properties of a run of main(), under Spec.                              *)

NumericTags == {"solarflux", "aindex", "kindex", "aurora"}

\* The record node has been chosen and the extraction has run on it
Extracted == item.found /\ pc # "located"

\* The element of the record node is missing or has no text
Missing(tag) ==
    Find(item.children, tag) = 0
      \/ ~item.children[Find(item.children, tag)].hasText

\* The text of the element, for an element that is not Missing
TextOf(tag) == item.children[Find(item.children, tag)].text

\* The text is there and is no number
NonNumeric(tag) == ~Missing(tag) /\ ~FloatOrZero(Strip(TextOf(tag))).ok

\* The number the report holds for a numeric tag, in tenths
Tenths(tag) ==
    CASE tag = "solarflux" -> report.sfi
      [] tag = "aindex" -> Fin(10 * report.a)
      [] tag = "kindex" -> Fin(10 * report.k)
      [] tag = "aurora" -> report.aurora

\* C1: a numeric field whose text is no number is extracted as 0 and the
\* run goes on: the extraction does not end the run, and the field is 0.
C1_NonNumericYieldsZero ==
    Extracted =>
        \A tag \in NumericTags :
            NonNumeric(tag) => report.populated /\ Tenths(tag) = Fin(0)

\* C2: a field whose element is missing or has no text is extracted as its
\* default (0 for the four numeric fields, "?" for sunspots, "NoRpt" for
\* geomagfield, "" for xray), a string field that has text as the stripped
\* text; the extraction does not raise unless a numeric field has text;
\* a record without kindex has k = 0 and is classified quiet; once the
\* extraction is past, the report is populated.
C2_MissingFieldsDefault ==
    Extracted =>
        /\ report.populated =>
            /\ \A tag \in NumericTags : Missing(tag) => Tenths(tag) = Fin(0)
            /\ report.sn =
                 IF Missing("sunspots") THEN <<"?">> ELSE Strip(TextOf("sunspots"))
            /\ report.geomag =
                 IF Missing("geomagfield") THEN <<"N", "o", "R", "p", "t">>
                 ELSE Strip(TextOf("geomagfield"))
            /\ report.xray =
                 IF Missing("xray") THEN <<>> ELSE Strip(TextOf("xray"))
            /\ report.sig_noise =
                 IF Missing("signalnoise") THEN <<"?">>
                 ELSE Strip(TextOf("signalnoise"))
            /\ (Missing("kindex") /\ phrases # NoPhrases) => phrases.k = KQuiet
        /\ ~report.populated => \E tag \in NumericTags : ~Missing(tag)
        /\ pc \in {"extracted", "classified", "formatted", "rendered", "done"}
              => report.populated

\* A record with a padded sunspots text, without text in kindex and without
\* geomagfield has been extracted and classified
C2_Witness ==
    /\ pc = "classified"
    /\ Find(item.children, "kindex") # 0 /\ Missing("kindex")
    /\ Find(item.children, "geomagfield") = 0
    /\ Find(item.children, "sunspots") # 0
    /\ report.sn = <<"1", "2", "0">>
    /\ report.k = 0
    /\ report.geomag = <<"N", "o", "R", "p", "t">>
    /\ phrases.k = KQuiet

FatalErrors == {"RequestException", "HTTPError", "ParseError", "SystemExit"}

C8_SixLinesPerLanguage ==
    (report.populated /\ pc \notin {"located", "extracted", "classified"}) =>
        /\ Len(lines_de) = 6 /\ Len(lines_en) = 6
        /\ \A i \in 1..6 :
            /\ Len(lines_de[i]) = Len(lines_en[i])
            /\ \A j \in 1..Len(lines_de[i]) :
                /\ lines_de[i][j].piece = lines_en[i][j].piece
                /\ lines_de[i][j].text = lines_en[i][j].text
        /\ (lines_de[5][2].text = <<"n", "/", "a">>) = (report.xray = <<>>)

\* C8, for the reports whose solar flux is finite: the six lines of both
\* languages are produced, line by line with the same values, the phrases
\* those of one classifier pair, and "n/a" stands for an empty xray.
C8_FiniteSfiSixLines ==
    (report.populated /\ report.sfi.kind = "fin"
        /\ pc \notin {"located", "extracted", "classified"}) =>
        /\ Len(lines_de) = 6 /\ Len(lines_en) = 6
        /\ \A i \in 1..6 :
            /\ Len(lines_de[i]) = Len(lines_en[i])
            /\ \A j \in 1..Len(lines_de[i]) :
                /\ lines_de[i][j].piece = lines_en[i][j].piece
                /\ lines_de[i][j].text = lines_en[i][j].text
        /\ lines_de[1][2] = lines_en[1][2] /\ lines_de[1][2].str \in Clock
        /\ <<lines_de[2][6].str, lines_en[2][6].str>> = phrases.sfi
        /\ <<lines_de[3][6].str, lines_en[3][6].str>> = phrases.k
        /\ <<lines_de[4][4].str, lines_en[4][4].str>> = phrases.aur
        /\ <<lines_de[5][4].str, lines_en[5][4].str>> = phrases.xr
        /\ lines_de[2][4].text = report.sn
        /\ lines_de[6][2].text = report.geomag
        /\ lines_de[6][4].text = report.sig_noise
        /\ (lines_de[5][2].text = <<"n", "/", "a">>) = (report.xray = <<>>)
        /\ report.xray # <<>> => lines_de[5][2].text = report.xray

\* The integer a decimal text shows
ShownInt(text) ==
    IF text # <<>> /\ Head(text) = "-" THEN -DigitsVal(Tail(text))
    ELSE DigitsVal(text)

\* x is t tenths cut toward zero
IsTruncOf(x, t) ==
    IF t >= 0 THEN 10 * x <= t /\ t < 10 * x + 10
    ELSE 10 * x - 10 < t /\ t <= 10 * x

\* C9: a_index and k_index are the parsed values cut toward zero, not
\* rounded; classify_k gets the cut k_index; the SFI shown is the parsed
\* value cut to an integer while classify_sfi gets the value as parsed.
C9_Truncation ==
    (Extracted /\ report.populated) =>
        /\ ~Missing("aindex") =>
              IsTruncOf(report.a, FloatOrZero(Strip(TextOf("aindex"))).v.t)
        /\ ~Missing("kindex") =>
              IsTruncOf(report.k, FloatOrZero(Strip(TextOf("kindex"))).v.t)
        /\ (~Missing("aindex") /\ TextOf("aindex") = <<"3", ".", "8">>)
              => report.a = 3
        /\ (~Missing("aindex") /\ TextOf("aindex") = <<"-", "3", ".", "8">>)
              => report.a = -3
        /\ phrases # NoPhrases =>
            /\ report.k <= 1 => phrases.k = KQuiet
            /\ (~Missing("kindex") /\ TextOf("kindex") = <<"1", ".", "9">>)
                  => phrases.k = KQuiet
            /\ InTenths(report.sfi, 790, 800) => phrases.sfi = SfiWeak
            /\ InTenths(report.sfi, 1190, 1200) => phrases.sfi = SfiGood
        /\ lines_de # <<>> =>
            /\ IsTruncOf(ShownInt(lines_de[2][2].text), report.sfi.t)
            /\ lines_en[2][2] = lines_de[2][2]
            /\ ShownInt(lines_de[3][2].text) = report.a
            /\ ShownInt(lines_de[3][4].text) = report.k

\* solarflux 79.9 is shown as 79 and classified weak, aindex -3.8 has become
\* -3 and kindex 1.9 has become 1 and is classified quiet
C9_Witness ==
    /\ pc = "formatted"
    /\ report.sfi = Fin(799) /\ lines_de[2][2].text = <<"7", "9">>
    /\ phrases.sfi = SfiWeak
    /\ ~Missing("aindex") /\ TextOf("aindex") = <<"-", "3", ".", "8">>
    /\ report.a = -3
    /\ ~Missing("kindex") /\ TextOf("kindex") = <<"1", ".", "9">>
    /\ report.k = 1 /\ phrases.k = KQuiet

\* C10: the record node is solardata whenever it exists, whatever item
\* carries directly; item only when there is no solardata; with neither the
\* run ends on SystemExit before anything is extracted.
C10_OrderedLookup ==
    /\ item.found =>
        /\ root.shape = "solardata" =>
              item.node = "solardata" /\ item.children = root.data
        /\ root.shape # "solardata" =>
              /\ root.shape = "item"
              /\ item.node = "item" /\ item.children = root.direct
        /\ report.populated =>
              \A tag \in {"sunspots", "geomagfield", "xray"} :
                 LET src == IF root.shape = "solardata" THEN root.data
                            ELSE root.direct
                     val == CASE tag = "sunspots" -> report.sn
                              [] tag = "geomagfield" -> report.geomag
                              [] tag = "xray" -> report.xray
                 IN  (Find(src, tag) # 0 /\ src[Find(src, tag)].hasText)
                        => val = Strip(src[Find(src, tag)].text)
    /\ (root.wellFormed /\ root.shape \in {"root", "channel"} /\ pc # "parsed") =>
        /\ pc = "failed" /\ err = "SystemExit"
        /\ ~item.found /\ ~report.populated
        /\ phrases = NoPhrases /\ lines_de = <<>> /\ lines_en = <<>>
        /\ canvas = <<>> /\ writes = 0

\* solardata and item both carry kindex and xray; the report holds those of
\* solardata
C10_Witness ==
    /\ root.shape = "solardata"
    /\ Find(root.direct, "kindex") # 0 /\ Find(root.data, "kindex") # 0
    /\ root.direct[Find(root.direct, "kindex")].text = <<"5">>
    /\ root.data[Find(root.data, "kindex")].text = <<" ", "4">>
    /\ report.populated /\ report.k = 4

====
